---- MODULE Spec2Model ----
(***************************************************************************)
(* Turn resolution of the roguelike engine: the event handlers of          *)
(* input_handlers.py, the actions of actions.py, the enemy batch and the   *)
(* visibility update of engine.py, and the Fighter / Level / AI components *)
(* they mutate.                                                            *)
(*                                                                         *)
(* One call of EventHandler.handle_events is resolved in the steps the     *)
(* code runs in sequence: the dispatched action is performed, then every   *)
(* entity of the enemy batch takes its turn, then update_fov runs and the  *)
(* next handler is returned.  pc is the position inside that call.         *)
(*                                                                         *)
(* MessageLog spells its method add_messge while every caller and its own  *)
(* documentation say add_message; the operator add_message below is that   *)
(* method's body.                                                          *)
(***************************************************************************)
EXTENDS Integers, Sequences, FiniteSets, TLC

\* ------------------------------------------------------------------ bounds

\* hit points of the three actor templates, scaled down
PlayerHp == 3
OrcHp == 3
TrollHp == 2
\* experience rewards and the level threshold formula, scaled down
OrcXp == 2
TrollXp == 3
LevelUpBase == 1
LevelUpFactor == 1
\* amount of Level.increase_max_hp, scaled down
MaxHpAmount == 2
\* number_of_turns of the confusion scroll, scaled down
ConfusionTurns == 2
\* the message log keeps its last MaxLog entries, a repeat count saturates
MaxLog == 1
MaxCount == 2
\* longest path the pathfinder is asked for
MaxPath == 7
\* amount of the health potion, maximum_range of the lightning scroll and radius
\* of the firecube scroll, scaled down to the map
HealingAmount == 3
LightningRange == 1
FirecubeRadius == 2
\* GameMap.width, GameMap.height
Width == 3
Height == 3
\* generate_dungeon: map_width, map_height, room_min_size, room_max_size and
\* max_rooms of setup_game.new_game, scaled down
MapWidth == 6
MapHeight == 6
RoomMinSize == 2
RoomMaxSize == 3
MaxRooms == 3
\* the values of max_monsters_by_floor and max_items_by_floor on floor 1,
\* scaled down
MaxMonstersPerRoom == 1
MaxItemsPerRoom == 1
\* capacity of the player's Inventory, scaled down
Capacity == 1
\* the deepest floor the model descends to
MaxFloor == 2
\* the deepest floor place_entities is called for
MaxFloorNumber == 8

\* ------------------------------------------------------- program constants

FovRadius == 8
LightningDamage == 20
FirecubeDamage == 12
BlockedCost == 10
CardinalCost == 2
DiagonalCost == 3

\* ---------------------------------------------------------------- the map

Cells == (0 .. Width - 1) \X (0 .. Height - 1)
\* tiles: an L-shaped corridor of floor, the rest is wall
Floor == {<<0, 0>>, <<1, 0>>, <<2, 0>>, <<2, 1>>, <<2, 2>>}

\* the map read as generate_dungeon leaves it: two rooms whose interior is one
\* cell, joined by an L-shaped tunnel; the player starts on the first room's
\* center and the stairs are on the last room's center
FirstRoomCenter == <<0, 0>>
LastRoomCenter == <<2, 2>>

Player == "player"
Enemies == {"e1", "e2"}
Actors == {Player} \cup Enemies

None == "none"

\* a message text: the format string and its arguments
Text(str) == <<str, <<>>, <<>>, 0>>

\* no exception raised
NoExc == Text("")

\* xy: the target_xy of an ItemAction; left: the actors in the entity set of
\* the GameMap the action replaced
NoAct == [kind |-> None, actor |-> None, d |-> <<0, 0>>, target |-> None, exc |-> NoExc,
          xy |-> <<0, 0>>, left |-> {}]

Max(a, b) == IF a >= b THEN a ELSE b
Min(a, b) == IF a <= b THEN a ELSE b
Abs(a) == IF a >= 0 THEN a ELSE 0 - a

\* Entity.distance: Chebyshev distance between two coordinates
distance(c1, c2) == Max(Abs(c1[1] - c2[1]), Abs(c1[2] - c2[2]))

\* GameMap.in_bounds
in_bounds(c) == 0 <= c[1] /\ c[1] < Width /\ 0 <= c[2] /\ c[2] < Height

\* tiles["walkable"] and tiles["transparent"]: floor is both, wall is neither
walkable(c) == c \in Floor
transparent(c) == c \in Floor

\* the 8 compass directions of MOVE_KEYS and of ConfusedEnemy.perform
Directions == ((-1 .. 1) \X (-1 .. 1)) \ {<<0, 0>>}

Add(c, d) == <<c[1] + d[1], c[2] + d[2]>>
Sub(c1, c2) == <<c1[1] - c2[1], c1[2] - c2[2]>>

\* ------------------------------------------------------- actor templates

ActorName == [player |-> <<"Player">>, e1 |-> <<"Orc">>, e2 |-> <<"Troll">>]
TemplateHp == [player |-> PlayerHp, e1 |-> OrcHp, e2 |-> TrollHp]
base_power == [player |-> 2, e1 |-> 3, e2 |-> 4]
base_defense == [player |-> 1, e1 |-> 0, e2 |-> 1]
xp_given == [player |-> 0, e1 |-> OrcXp, e2 |-> TrollXp]

\* the items of entity_factories the player may carry
Consumables == {"health_potion", "lightning_scroll", "confusion_scroll", "firecube_scroll"}
Equippables == {"dagger", "sword", "leather_armor", "chain_mail"}
\* the Item objects that lie on a floor or are picked up from it
ItemPool == {"health_potion", "chain_mail"}
ItemName == [health_potion |-> <<"Health Potion">>,
             lightning_scroll |-> <<"Scroll of Lightning">>,
             confusion_scroll |-> <<"Scroll of Confusion">>,
             firecube_scroll |-> <<"Scroll of Firecube">>,
             chain_mail |-> <<"Chain Mail">>,
             dagger |-> <<"Dagger">>,
             sword |-> <<"Sword">>,
             leather_armor |-> <<"Leather Armor">>]

\* the Equippable component of each item; an empty slot adds nothing
Equippable ==
    [dagger |-> [equipment_type |-> "WEAPON", power_bonus |-> 2, defense_bonus |-> 0],
     sword |-> [equipment_type |-> "WEAPON", power_bonus |-> 4, defense_bonus |-> 0],
     leather_armor |-> [equipment_type |-> "ARMOR", power_bonus |-> 0, defense_bonus |-> 1],
     chain_mail |-> [equipment_type |-> "ARMOR", power_bonus |-> 0, defense_bonus |-> 3],
     none |-> [equipment_type |-> "NONE", power_bonus |-> 0, defense_bonus |-> 0]]

Weapons == {i \in Equippables : Equippable[i].equipment_type = "WEAPON"}
Armors == {i \in Equippables : Equippable[i].equipment_type = "ARMOR"}

\* an AI slot: alive = FALSE is the null slot; path is the HostileEnemy path;
\* conf is the stack of turns_remaining of the ConfusedEnemy wrappers around it
NoAI == [alive |-> FALSE, path |-> <<>>, conf |-> <<>>]
HostileEnemy == [alive |-> TRUE, path |-> <<>>, conf |-> <<>>]

\* ----------------------------------------------------------------- state

VARIABLES
    pos,              \* Entity.x, Entity.y of every actor
    hp,               \* Fighter._hp
    max_hp,           \* Fighter.max_hp
    ai,               \* Actor.ai
    blocks_movement,  \* Entity.blocks_movement
    name,             \* Entity.name
    current_xp,       \* Level.current_xp of the player
    current_level,    \* Level.current_level of the player
    armor,            \* Equipment.armor of the player
    weapon,           \* Equipment.weapon of the player
    inventory,        \* Inventory.items of the player
    messages,         \* MessageLog.messages (its last MaxLog entries)
    visible,          \* GameMap.visible
    explored,         \* GameMap.explored
    handler,          \* the active event handler of main()
    handler_item,     \* the item a targeting handler's callback is bound to
    pc,               \* position inside handle_events
    queue,            \* entities handle_enemy_turns has still to visit
    deaths,           \* history: how often Fighter.die ran for each actor
    invoked,          \* history: AI invocations during the current batch
    batch_runs,       \* history: handle_enemy_turns calls during the current event
    swallowed,        \* history: entities whose Impossible the batch swallowed
    fov_runs,         \* history: update_fov calls during the current event
    logged,           \* history: texts given to add_message by the last step
    act,              \* history: the action performed by the last step
    map_actors,       \* GameMap.entities: the actors of engine.game_map
    map_items,        \* GameMap.entities: the items of engine.game_map
    item_xy,          \* Entity.x, Entity.y of every item
    item_parent,      \* Entity.parent of every item
    game_map,         \* engine.game_map: the number of the GameMap object
    current_floor,    \* GameWorld.current_floor
    downstairs_location,  \* GameMap.downstairs_location of engine.game_map
    tiles,            \* generate_dungeon: dungeon.tiles
    rooms,            \* generate_dungeon: rooms
    center_of_last_room,  \* generate_dungeon: center_of_last_room
    dungeon_downstairs,   \* generate_dungeon: dungeon.downstairs_location
    dungeon_entities, \* generate_dungeon: dungeon.entities but the player
    player_xy,        \* generate_dungeon: player.x, player.y
    r,                \* generate_dungeon: iterations of `for r in range(max_rooms)` done
    gen_pc,           \* generate_dungeon: "loop", "returned", or "idle" outside it
    spawning          \* place_entities: floor_number, its position, and the
                      \* entities of monsters + items its loop has not visited

\* the variables of a session in play
play_vars == <<pos, hp, max_hp, ai, blocks_movement, name, current_xp,
               current_level, armor, weapon, inventory, messages, visible, explored,
               handler, handler_item, pc, queue, deaths, invoked, batch_runs,
               swallowed, fov_runs, logged, act, map_actors, map_items,
               item_xy, item_parent, game_map, current_floor,
               downstairs_location>>

\* the variables of a run of generate_dungeon
gen_vars == <<tiles, rooms, center_of_last_room, dungeon_downstairs,
              dungeon_entities, player_xy, r, gen_pc, spawning>>

vars == <<play_vars, gen_vars>>

\* the fields the actions and components work on, as one record
World ==
    [pos |-> pos, hp |-> hp, max_hp |-> max_hp, ai |-> ai,
     blocks_movement |-> blocks_movement, name |-> name,
     current_xp |-> current_xp, current_level |-> current_level,
     armor |-> armor, weapon |-> weapon, inventory |-> inventory, messages |-> messages,
     visible |-> visible,
     explored |-> explored, deaths |-> deaths,
     map_actors |-> map_actors, map_items |-> map_items, item_xy |-> item_xy,
     item_parent |-> item_parent, game_map |-> game_map,
     current_floor |-> current_floor, downstairs_location |-> downstairs_location,
     logged |-> <<>>, act |-> NoAct, exc |-> NoExc]

Commit(w) ==
    /\ pos' = w.pos
    /\ hp' = w.hp
    /\ max_hp' = w.max_hp
    /\ ai' = w.ai
    /\ blocks_movement' = w.blocks_movement
    /\ name' = w.name
    /\ current_xp' = w.current_xp
    /\ current_level' = w.current_level
    /\ armor' = w.armor
    /\ weapon' = w.weapon
    /\ inventory' = w.inventory
    /\ messages' = w.messages
    /\ visible' = w.visible
    /\ explored' = w.explored
    /\ deaths' = w.deaths
    /\ map_actors' = w.map_actors
    /\ map_items' = w.map_items
    /\ item_xy' = w.item_xy
    /\ item_parent' = w.item_parent
    /\ game_map' = w.game_map
    /\ current_floor' = w.current_floor
    /\ downstairs_location' = w.downstairs_location
    /\ logged' = w.logged
    /\ act' = [w.act EXCEPT !.exc = w.exc]
    /\ UNCHANGED gen_vars

\* raise exceptions.Impossible(text)
Impossible(w, text) == [w EXCEPT !.exc = text]

\* ----------------------------------------------------------- message log

LastEntries(s) == IF Len(s) > MaxLog THEN SubSeq(s, Len(s) - MaxLog + 1, Len(s)) ELSE s

\* MessageLog.add_messge: stack onto an equal last message, else append
add_message(w, text, fg) ==
    LET n == Len(w.messages) IN
    IF n > 0 /\ text = w.messages[n].plain_text
    THEN [w EXCEPT !.messages[n].count = Min(@ + 1, MaxCount),
                   !.logged = Append(@, text)]
    ELSE [w EXCEPT !.messages =
                       LastEntries(Append(@, [plain_text |-> text, fg |-> fg, count |-> 1])),
                   !.logged = Append(@, text)]

\* ------------------------------------------------------------ components

\* Level.experience_to_next_level
experience_to_next_level(w) == LevelUpBase + w.current_level * LevelUpFactor

\* Level.requires_level_up
requires_level_up(w) == w.current_xp > experience_to_next_level(w)

\* Level.add_xp of the player's Level
add_xp(w, xp) ==
    IF xp = 0 \/ LevelUpBase = 0 THEN w
    ELSE LET w1 == [w EXCEPT !.current_xp = @ + xp]
             w2 == add_message(w1, <<"gain xp", <<>>, <<>>, xp>>, "white")
         IN IF requires_level_up(w2)
            THEN add_message(w2, <<"advance", <<>>, <<>>, w2.current_level + 1>>, "white")
            ELSE w2

\* Equipment.defense_bonus / power_bonus: only the player carries equipment
defense_bonus(w, a) ==
    IF a = Player THEN Equippable[w.weapon].defense_bonus + Equippable[w.armor].defense_bonus
    ELSE 0
power_bonus(w, a) ==
    IF a = Player THEN Equippable[w.weapon].power_bonus + Equippable[w.armor].power_bonus
    ELSE 0

\* Fighter.defense, Fighter.power
defense(w, a) == base_defense[a] + defense_bonus(w, a)
power(w, a) == base_power[a] + power_bonus(w, a)

\* Fighter.die without `self.parent.ai = None`
die_keeps_ai(w, a) ==
    LET text == IF a = Player THEN Text("You Died")
                ELSE <<"you've defeated", w.name[a], <<>>, 0>>
        fg == IF a = Player THEN "player_die" ELSE "enemy_die"
        w1 == [w EXCEPT !.blocks_movement[a] = FALSE,
                        !.name[a] = <<"remains of">> \o @,
                        !.deaths[a] = @ + 1]
    IN add_xp(add_message(w1, text, fg), xp_given[a])

\* Fighter.die without `self.parent.blocks_movement = False`
die_keeps_blocking(w, a) ==
    LET text == IF a = Player THEN Text("You Died")
                ELSE <<"you've defeated", w.name[a], <<>>, 0>>
        fg == IF a = Player THEN "player_die" ELSE "enemy_die"
        w1 == [w EXCEPT !.ai[a] = NoAI,
                        !.name[a] = <<"remains of">> \o @,
                        !.deaths[a] = @ + 1]
    IN add_xp(add_message(w1, text, fg), xp_given[a])

\* Fighter.die
die(w, a) ==
    LET text == IF a = Player THEN Text("You Died")
                ELSE <<"you've defeated", w.name[a], <<>>, 0>>
        fg == IF a = Player THEN "player_die" ELSE "enemy_die"
        w1 == [w EXCEPT !.blocks_movement[a] = FALSE,
                        !.ai[a] = NoAI,
                        !.name[a] = <<"remains of">> \o @,
                        !.deaths[a] = @ + 1]
    IN add_xp(add_message(w1, text, fg), xp_given[a])

\* Fighter.hp setter without the floor at 0
set_hp_no_floor(w, a, value) ==
    LET w1 == [w EXCEPT !.hp[a] = Min(value, w.max_hp[a])]
    IN IF w1.hp[a] <= 0 /\ w1.ai[a].alive THEN die(w1, a) ELSE w1

\* Fighter.hp setter
set_hp(w, a, value) ==
    LET w1 == [w EXCEPT !.hp[a] = Max(0, Min(value, w.max_hp[a]))]
    IN IF w1.hp[a] = 0 /\ w1.ai[a].alive THEN die(w1, a) ELSE w1

\* Fighter.take_damage
take_damage(w, a, amount) == set_hp(w, a, w.hp[a] - amount)

\* Level.increase_level
increase_level(w) ==
    [w EXCEPT !.current_xp = @ - experience_to_next_level(w),
              !.current_level = @ + 1]

\* Level.increase_max_hp
increase_max_hp(w) ==
    LET w1 == [w EXCEPT !.max_hp[Player] = @ + MaxHpAmount]
        w2 == set_hp(w1, Player, w1.hp[Player] + MaxHpAmount)
    IN increase_level(add_message(w2, Text("Your health improves!"), "white"))

\* raise AttributeError: an exception that handle_action does not catch
AttributeError(w) == [w EXCEPT !.exc = Text("AttributeError")]

\* Level.increase_power: `self.parent.fighter.power += amount` assigns to
\* Fighter.power, a property without a setter, so the statement raises before
\* the message and before increase_level
increase_power(w) == AttributeError(w)

\* Level.increase_defense: `self.parent.fighter.defense += amount`, the same
increase_defense(w) == AttributeError(w)

\* -------------------------------------------------------------- game map

\* GameMap.actors: the living actors
actors(w) == {a \in w.map_actors : w.ai[a].alive}

\* GameMap.get_blocking_ntity_at_location (as a truth value)
get_blocking_ntity_at_location(w, c) ==
    \E a \in w.map_actors : w.blocks_movement[a] /\ w.pos[a] = c

\* GameMap.get_actor_at_location
get_actor_at_location(w, c) ==
    IF \E a \in actors(w) : w.pos[a] = c
    THEN CHOOSE a \in actors(w) : w.pos[a] = c
    ELSE None

\* ---------------------------------------------------------------- actions

Did(w, kind, a, d, target) ==
    [w EXCEPT !.act = [kind |-> kind, actor |-> a, d |-> d, target |-> target, exc |-> NoExc,
                       xy |-> <<0, 0>>, left |-> {}]]

\* WaitAction.perform
WaitAction(w, a) == Did(w, "wait", a, <<0, 0>>, None)

\* MeleeAction.perform with damage = attacker power, the defense forgotten
MeleeAction_ignores_defense(w, a, d) ==
    LET target == get_actor_at_location(w, Add(w.pos[a], d))
        w0 == Did(w, "melee", a, d, target)
    IN IF target = None THEN Impossible(w0, Text("Nothing to attack"))
       ELSE LET damage == power(w0, a)
                fg == IF a = Player THEN "player_atk" ELSE "enemy_atk"
            IN IF damage > 0
               THEN set_hp(add_message(w0, <<"attacks for", w0.name[a], w0.name[target], damage>>, fg),
                           target, w0.hp[target] - damage)
               ELSE add_message(w0, <<"attacks but does no damage", w0.name[a], w0.name[target], 0>>, fg)

\* MeleeAction.perform
MeleeAction(w, a, d) ==
    LET target == get_actor_at_location(w, Add(w.pos[a], d))
        w0 == Did(w, "melee", a, d, target)
    IN IF target = None THEN Impossible(w0, Text("Nothing to attack"))
       ELSE LET damage == power(w0, a) - defense(w0, target)
                fg == IF a = Player THEN "player_atk" ELSE "enemy_atk"
            IN IF damage > 0
               THEN set_hp(add_message(w0, <<"attacks for", w0.name[a], w0.name[target], damage>>, fg),
                           target, w0.hp[target] - damage)
               ELSE add_message(w0, <<"attacks but does no damage", w0.name[a], w0.name[target], 0>>, fg)

\* MovementAction.perform without the blocking-entity test
MovementAction_through_entities(w, a, d) ==
    LET dest == Add(w.pos[a], d)
        w0 == Did(w, "move", a, d, None)
    IN IF ~in_bounds(dest) THEN Impossible(w0, Text("That way is blocked."))
       ELSE IF ~walkable(dest) THEN Impossible(w0, Text("That way is blocked."))
       ELSE [w0 EXCEPT !.pos[a] = dest]

\* MovementAction.perform without the test of tiles["walkable"]
MovementAction_through_walls(w, a, d) ==
    LET dest == Add(w.pos[a], d)
        w0 == Did(w, "move", a, d, None)
    IN IF ~in_bounds(dest) THEN Impossible(w0, Text("That way is blocked."))
       ELSE IF get_blocking_ntity_at_location(w0, dest) THEN Impossible(w0, Text("That way is blocked."))
       ELSE [w0 EXCEPT !.pos[a] = dest]

\* MovementAction.perform
MovementAction(w, a, d) ==
    LET dest == Add(w.pos[a], d)
        w0 == Did(w, "move", a, d, None)
    IN IF ~in_bounds(dest) THEN Impossible(w0, Text("That way is blocked."))
       ELSE IF ~walkable(dest) THEN Impossible(w0, Text("That way is blocked."))
       ELSE IF get_blocking_ntity_at_location(w0, dest) THEN Impossible(w0, Text("That way is blocked."))
       ELSE [w0 EXCEPT !.pos[a] = dest]

\* the parent of an item a GameMap or an Inventory holds
InMap(n) == <<"GameMap", n>>
InInventory == <<"Inventory", 0>>
\* the parent of an entity_factories template
NoParent == <<"None", 0>>

\* a pool object nothing refers to any more stands for the next new object
Unreferenced(w, gone) ==
    [w EXCEPT !.item_xy = [i \in DOMAIN @ |-> IF i \in gone THEN <<0, 0>> ELSE @[i]],
              !.item_parent = [i \in DOMAIN @ |-> IF i \in gone THEN NoParent ELSE @[i]]]

\* Consumable.consume removing the first item of the list instead of its own
consume_first(w, item) == [w EXCEPT !.inventory = Tail(@)]

\* Consumable.consume: inventory.items.remove(entity)
consume(w, item) ==
    Unreferenced([w EXCEPT !.inventory = SelectSeq(@, LAMBDA i : i # item)],
                 {item} \ {w.armor, w.weapon})

\* HealingConsumable.activate consuming the potion whatever Fighter.heal returns
HealingConsumable_activate_always_consumes(w, a, item) ==
    LET new_hp_value == Min(w.hp[a] + HealingAmount, w.max_hp[a])
        amount_recovered == IF w.hp[a] = w.max_hp[a] THEN 0 ELSE new_hp_value - w.hp[a]
        w1 == IF w.hp[a] = w.max_hp[a] THEN w ELSE set_hp(w, a, new_hp_value)
    IN {consume(add_message(w1, <<"You consume", ItemName[item], <<>>, amount_recovered>>,
                            "health_recoverd"), item)}

\* Fighter.heal with HealingConsumable.activate
HealingConsumable_activate(w, a, item) ==
    LET new_hp_value == Min(w.hp[a] + HealingAmount, w.max_hp[a])
        amount_recovered == IF w.hp[a] = w.max_hp[a] THEN 0 ELSE new_hp_value - w.hp[a]
        w1 == IF w.hp[a] = w.max_hp[a] THEN w ELSE set_hp(w, a, new_hp_value)
    IN IF amount_recovered > 0
       THEN {consume(add_message(w1, <<"You consume", ItemName[item], <<>>, amount_recovered>>,
                                 "health_recoverd"), item)}
       ELSE {Impossible(w1, Text("Your health is already full."))}

\* LightningDamageConsumable.activate calling consume() before the search
\* for a target
LightningDamageConsumable_activate_consumes_first(w, a, item) ==
    LET w1 == consume(w, item)
        candidates == {t \in actors(w1) \ {a} :
                         /\ w1.pos[t] \in w1.visible
                         /\ distance(w1.pos[a], w1.pos[t]) < LightningRange + 1}
    IN IF candidates = {} THEN {Impossible(w1, Text("No enemy is close enough to strike."))}
       ELSE {take_damage(add_message(w1, <<"A lightning bolt strike", w1.name[t], <<>>,
                                          LightningDamage>>, "white"),
                         t, LightningDamage) : t \in candidates}

\* LightningDamageConsumable.activate without `actor is not consumer`: the
\* consumer, at distance 0, is the closest actor
LightningDamageConsumable_activate_strikes_self(w, a, item) ==
    LET candidates == {t \in actors(w) :
                         /\ w.pos[t] \in w.visible
                         /\ distance(w.pos[a], w.pos[t]) < LightningRange + 1}
        closest == {t \in candidates : \A u \in candidates :
                         distance(w.pos[a], w.pos[t]) <= distance(w.pos[a], w.pos[u])}
    IN IF closest = {} THEN {Impossible(w, Text("No enemy is close enough to strike."))}
       ELSE {consume(take_damage(add_message(w, <<"A lightning bolt strike", w.name[t], <<>>,
                                                  LightningDamage>>, "white"),
                                  t, LightningDamage), item) : t \in closest}

\* LightningDamageConsumable.activate: the loop keeps the first actor found at
\* the least distance, and the set of actors is visited in no fixed order
LightningDamageConsumable_activate(w, a, item) ==
    LET candidates == {t \in actors(w) \ {a} :
                         /\ w.pos[t] \in w.visible
                         /\ distance(w.pos[a], w.pos[t]) < LightningRange + 1}
        closest == {t \in candidates : \A u \in candidates :
                         distance(w.pos[a], w.pos[t]) <= distance(w.pos[a], w.pos[u])}
    IN IF closest = {} THEN {Impossible(w, Text("No enemy is close enough to strike."))}
       ELSE {consume(take_damage(add_message(w, <<"A lightning bolt strike", w.name[t], <<>>,
                                                  LightningDamage>>, "white"),
                                  t, LightningDamage), item) : t \in closest}

\* ConfusionConsumable.activate storing the AI below a ConfusedEnemy the
\* target already holds, so that the new wrapper replaces the old one
ConfusionConsumable_activate_replaces(w, a, item, target_xy) ==
    LET target == get_actor_at_location(w, target_xy) IN
    IF target_xy \notin w.visible
    THEN {Impossible(w, Text("You cannot target an area that you cannot see."))}
    ELSE IF target = None THEN {Impossible(w, Text("You must select an enemy to target."))}
    ELSE IF target = a THEN {Impossible(w, Text("You cannot confuse yourself."))}
    ELSE {consume([add_message(w, <<"The eyes look vacant", w.name[target], <<>>, 0>>,
                               "status_effect_applied")
                     EXCEPT !.ai[target].conf = <<ConfusionTurns>>], item)}

\* ConfusionConsumable.activate
ConfusionConsumable_activate(w, a, item, target_xy) ==
    LET target == get_actor_at_location(w, target_xy) IN
    IF target_xy \notin w.visible
    THEN {Impossible(w, Text("You cannot target an area that you cannot see."))}
    ELSE IF target = None THEN {Impossible(w, Text("You must select an enemy to target."))}
    ELSE IF target = a THEN {Impossible(w, Text("You cannot confuse yourself."))}
    ELSE {consume([add_message(w, <<"The eyes look vacant", w.name[target], <<>>, 0>>,
                               "status_effect_applied")
                     EXCEPT !.ai[target].conf = <<ConfusionTurns>> \o @], item)}

\* the loop of FirecubeDamageConsumable.activate testing `distance <= radius`
RECURSIVE Engulf_within_radius(_, _, _)
Engulf_within_radius(w, order, target_xy) ==
    IF order = <<>> THEN w
    ELSE LET actor == Head(order) IN
         IF distance(w.pos[actor], target_xy) <= FirecubeRadius
         THEN Engulf_within_radius(take_damage(add_message(w, <<"is engulfed", w.name[actor],
                                                               <<>>, FirecubeDamage>>, "white"),
                                               actor, FirecubeDamage),
                                   Tail(order), target_xy)
         ELSE Engulf_within_radius(w, Tail(order), target_xy)

\* the loop body of FirecubeDamageConsumable.activate over the actors in the
\* order order
RECURSIVE Engulf(_, _, _)
Engulf(w, order, target_xy) ==
    IF order = <<>> THEN w
    ELSE LET actor == Head(order) IN
         IF distance(w.pos[actor], target_xy) < FirecubeRadius
         THEN Engulf(take_damage(add_message(w, <<"is engulfed", w.name[actor], <<>>,
                                                 FirecubeDamage>>, "white"),
                                 actor, FirecubeDamage),
                     Tail(order), target_xy)
         ELSE Engulf(w, Tail(order), target_xy)

Orders(S) == {o \in [1 .. Cardinality(S) -> S] : \A i, j \in DOMAIN o : i # j => o[i] # o[j]}

\* FirecubeDamageConsumable.activate
FirecubeDamageConsumable_activate(w, a, item, target_xy) ==
    IF target_xy \notin w.visible
    THEN {Impossible(w, Text("You cannot target an area that you cannot see"))}
    ELSE IF \A t \in actors(w) : ~(distance(w.pos[t], target_xy) < FirecubeRadius)
    THEN {Impossible(w, Text("There are no enemys in the radius."))}
    ELSE {consume(Engulf(w, order, target_xy), item) : order \in Orders(actors(w))}

\* ItemAction.perform: item.consumable.activate(self)
ItemAction(w, a, item, target_xy) ==
    LET w0 == [Did(w, item, a, <<0, 0>>, None) EXCEPT !.act.xy = target_xy] IN
    IF item = "health_potion" THEN HealingConsumable_activate(w0, a, item)
    ELSE IF item = "lightning_scroll" THEN LightningDamageConsumable_activate(w0, a, item)
    ELSE IF item = "confusion_scroll" THEN ConfusionConsumable_activate(w0, a, item, target_xy)
    ELSE FirecubeDamageConsumable_activate(w0, a, item, target_xy)

\* Equipment.unequip_from_slot
unequip_from_slot(w, slot) ==
    [add_message(w, <<"You remove", ItemName[w[slot]], <<>>, 0>>, "white")
       EXCEPT ![slot] = None]

\* Equipment.equip_to_slot
equip_to_slot(w, slot, item) ==
    LET w1 == IF w[slot] # None THEN unequip_from_slot(w, slot) ELSE w
    IN add_message([w1 EXCEPT ![slot] = item], <<"You equip", ItemName[item], <<>>, 0>>, "white")

\* Equipment.toggle_equip sending every item to the armor slot
toggle_equip_armor_only(w, item) ==
    IF w.armor = item THEN unequip_from_slot(w, "armor")
    ELSE equip_to_slot(w, "armor", item)

\* Equipment.toggle_equip
toggle_equip(w, item) ==
    LET slot == IF Equippable[item].equipment_type = "WEAPON" THEN "weapon" ELSE "armor"
    IN IF w[slot] = item THEN unequip_from_slot(w, slot)
       ELSE equip_to_slot(w, slot, item)

\* EquipAction.perform
EquipAction(w, a, item) == toggle_equip(Did(w, "equip", a, <<0, 0>>, item), item)

\* PickupAction.perform without the test of the capacity
PickupAction_no_capacity(w, a) ==
    LET w0 == Did(w, "pickup", a, <<0, 0>>, None)
        here == {item \in w0.map_items : w0.item_xy[item] = w0.pos[a]}
    IN IF here = {} THEN {Impossible(w0, Text("There is nothing to pick up"))}
       ELSE {add_message([w0 EXCEPT !.map_items = @ \ {item},
                                    !.item_parent[item] = InInventory,
                                    !.inventory = Append(@, item)],
                         <<"You picked up", ItemName[item], <<>>, 0>>, "white") :
             item \in here}

\* PickupAction.perform testing the capacity before it looks for an item
PickupAction_full_first(w, a) ==
    LET w0 == Did(w, "pickup", a, <<0, 0>>, None)
        here == {item \in w0.map_items : w0.item_xy[item] = w0.pos[a]}
    IN IF Len(w0.inventory) >= Capacity
       THEN {Impossible(w0, Text("Your inventory is full."))}
       ELSE IF here = {} THEN {Impossible(w0, Text("There is nothing to pick up"))}
       ELSE {add_message([w0 EXCEPT !.map_items = @ \ {item},
                                    !.item_parent[item] = InInventory,
                                    !.inventory = Append(@, item)],
                         <<"You picked up", ItemName[item], <<>>, 0>>, "white") :
             item \in here}

\* PickupAction.perform without game_map.entities.remove(item)
PickupAction_keeps_on_floor(w, a) ==
    LET w0 == Did(w, "pickup", a, <<0, 0>>, None)
        here == {item \in w0.map_items : w0.item_xy[item] = w0.pos[a]}
    IN IF here = {} THEN {Impossible(w0, Text("There is nothing to pick up"))}
       ELSE IF Len(w0.inventory) >= Capacity
       THEN {Impossible(w0, Text("Your inventory is full."))}
       ELSE {add_message([w0 EXCEPT !.item_parent[item] = InInventory,
                                    !.inventory = Append(@, item)],
                         <<"You picked up", ItemName[item], <<>>, 0>>, "white") :
             item \in here}

\* PickupAction.perform: the loop takes the first item it finds on the
\* actor's cell, and visits the set of entities in no fixed order
PickupAction(w, a) ==
    LET w0 == Did(w, "pickup", a, <<0, 0>>, None)
        here == {item \in w0.map_items : w0.item_xy[item] = w0.pos[a]}
    IN IF here = {} THEN {Impossible(w0, Text("There is nothing to pick up"))}
       ELSE IF Len(w0.inventory) >= Capacity
       THEN {Impossible(w0, Text("Your inventory is full."))}
       ELSE {add_message([w0 EXCEPT !.map_items = @ \ {item},
                                    !.item_parent[item] = InInventory,
                                    !.inventory = Append(@, item)],
                         <<"You picked up", ItemName[item], <<>>, 0>>, "white") :
             item \in here}

\* Entity.place of an item onto the GameMap gamemap
place(w, item, xy, gamemap) ==
    [w EXCEPT !.item_xy[item] = xy,
              !.map_items = IF gamemap = w.game_map
                            THEN (IF w.item_parent[item] = InMap(w.game_map)
                                  THEN @ \ {item} ELSE @) \cup {item}
                            ELSE @,
              !.item_parent[item] = InMap(gamemap)]

\* Inventory.drop
drop(w, a, item) ==
    LET w1 == [w EXCEPT !.inventory = SelectSeq(@, LAMBDA i : i # item)]
    IN add_message(place(w1, item, w1.pos[a], w1.game_map),
                   <<"You dropped", ItemName[item], <<>>, 0>>, "white")

\* DropItem.perform
DropItem(w, a, item) == drop(Did(w, "drop", a, <<0, 0>>, item), a, item)

\* the actors of a game map that nothing refers to any more: their fields can
\* no longer be read, and the model gives them the values of construction
UnreferencedActors(w, gone) ==
    [w EXCEPT !.pos = [a \in DOMAIN @ |-> IF a \in gone THEN <<0, 0>> ELSE @[a]],
              !.hp = [a \in DOMAIN @ |-> IF a \in gone THEN TemplateHp[a] ELSE @[a]],
              !.max_hp = [a \in DOMAIN @ |-> IF a \in gone THEN TemplateHp[a] ELSE @[a]],
              !.ai = [a \in DOMAIN @ |-> IF a \in gone THEN HostileEnemy ELSE @[a]],
              !.blocks_movement = [a \in DOMAIN @ |-> IF a \in gone THEN TRUE ELSE @[a]],
              !.name = [a \in DOMAIN @ |-> IF a \in gone THEN ActorName[a] ELSE @[a]]]

\* Entity.place without `self.gamemap.entities.remove(self)`: the map left
\* behind still lists the player
place_keeps_old_membership(w) == w.map_actors

\* Entity.place of the player into a new GameMap: the entity set of the map
\* the player is taken out of
place_leaves(w) == w.map_actors \ {Player}

\* generate_dungeon as generate_floor sees it: a new GameMap that holds the
\* player, on the first room's center, and what place_entities spawned; here
\* the rooms drawn are those of the map and the draw of monsters is 0, so the
\* last room's one interior cell gets an item or stays empty
generate_dungeon(w) ==
    LET fresh == {i \in ItemPool : i \notin {w.armor, w.weapon} /\ \A k \in DOMAIN w.inventory : w.inventory[k] # i}
        dungeon == [UnreferencedActors(Unreferenced(w, fresh), w.map_actors \ {Player})
                      EXCEPT !.game_map = @ + 1,
                             !.act.left = place_leaves(w),
                             !.map_actors = {Player},
                             !.map_items = {},
                             !.pos[Player] = FirstRoomCenter,
                             !.visible = {},
                             !.explored = {},
                             !.downstairs_location = LastRoomCenter]
    IN {dungeon} \cup
       {[dungeon EXCEPT !.map_items = {item},
                        !.item_xy[item] = LastRoomCenter,
                        !.item_parent[item] = InMap(dungeon.game_map)] : item \in fresh}

\* GameWorld.generate_floor
generate_floor(w) == generate_dungeon([w EXCEPT !.current_floor = @ + 1])

\* TakeStairsAction.perform on any cell
TakeStairsAction_anywhere(w, a) ==
    {add_message(d, Text("You descend the staircase."), "descend") :
        d \in generate_floor(Did(w, "stairs", a, <<0, 0>>, None))}

\* TakeStairsAction.perform
TakeStairsAction(w, a) ==
    LET w0 == Did(w, "stairs", a, <<0, 0>>, None) IN
    IF w0.pos[a] = w0.downstairs_location
    THEN {add_message(d, Text("You descend the staircase."), "descend") :
             d \in generate_floor(w0)}
    ELSE {Impossible(w0, Text("There are no stairs here."))}

\* BumpAction.perform
BumpAction(w, a, d) ==
    IF get_actor_at_location(w, Add(w.pos[a], d)) # None
    THEN MeleeAction(w, a, d)
    ELSE MovementAction(w, a, d)

\* ---------------------------------------------------------- field of view

\* tcod.map.compute_fov on this map: a cell within the radius is lit when a
\* shortest king-move route from the origin reaches it over transparent cells
RECURSIVE Lit(_, _)
Lit(o, c) ==
    LET dist == distance(o, c) IN
    IF dist <= 1 THEN TRUE
    ELSE \E n \in Cells : /\ distance(n, c) = 1
                          /\ distance(o, n) = dist - 1
                          /\ transparent(n)
                          /\ Lit(o, n)

compute_fov == [o \in Cells |-> {c \in Cells : distance(o, c) <= FovRadius /\ Lit(o, c)}]

\* Engine.update_fov with `explored = visible` in place of `explored |= visible`
update_fov_forgets(w) ==
    [w EXCEPT !.visible = compute_fov[w.pos[Player]],
              !.explored = compute_fov[w.pos[Player]]]

\* Engine.update_fov
update_fov(w) ==
    LET lit == compute_fov[w.pos[Player]]
    IN [w EXCEPT !.visible = lit, !.explored = @ \cup lit]

\* ------------------------------------------------------------ pathfinding

\* every route of at most n king moves from s to t over walkable cells that
\* visits no cell twice, without its starting cell
RECURSIVE Routes(_, _, _, _)
Routes(s, t, seen, n) ==
    IF s = t THEN {<<>>}
    ELSE IF n = 0 THEN {}
    ELSE UNION {{<<c>> \o p : p \in Routes(c, t, seen \cup {c}, n - 1)} :
                c \in {c \in Floor \ seen : distance(s, c) = 1}}

AllRoutes == [s \in Cells, t \in Cells |-> Routes(s, t, {s}, MaxPath)]

\* the cost array of BaseAI.get_path_to
cost(w, c) ==
    IF walkable(c)
    THEN 1 + BlockedCost * Cardinality({a \in w.map_actors : w.blocks_movement[a] /\ w.pos[a] = c})
    ELSE 0

\* tcod.path.SimpleGraph(cost, cardinal=2, diagonal=3): the cost of one move
MoveCost(w, from, to) ==
    cost(w, to) * (IF from[1] = to[1] \/ from[2] = to[2] THEN CardinalCost ELSE DiagonalCost)

RECURSIVE RouteCost(_, _, _)
RouteCost(w, from, p) ==
    IF p = <<>> THEN 0 ELSE MoveCost(w, from, Head(p)) + RouteCost(w, Head(p), Tail(p))

\* BaseAI.get_path_to: the cheapest routes; the empty path when there is none
get_path_to(w, a, dest) ==
    LET all == AllRoutes[w.pos[a], dest]
    IN IF all = {} THEN {<<>>}
       ELSE {p \in all : \A q \in all : RouteCost(w, w.pos[a], p) <= RouteCost(w, w.pos[a], q)}

\* --------------------------------------------------------------------- AI

\* HostileEnemy.perform from `if self.path:` on
FollowPath(w, a) ==
    IF w.ai[a].path # <<>>
    THEN MovementAction([w EXCEPT !.ai[a].path = Tail(@)], a,
                        Sub(Head(w.ai[a].path), w.pos[a]))
    ELSE WaitAction(w, a)

\* HostileEnemy.perform: the set of outcomes (the pathfinder may break ties)
HostileEnemy_perform(w, a) ==
    LET d == Sub(w.pos[Player], w.pos[a]) IN
    IF w.pos[a] \in w.visible
    THEN IF distance(w.pos[Player], w.pos[a]) <= 1
         THEN {MeleeAction(w, a, d)}
         ELSE {FollowPath([w EXCEPT !.ai[a].path = p], a) :
               p \in get_path_to(w, a, w.pos[Player])}
    ELSE {FollowPath(w, a)}

\* ConfusedEnemy.perform testing `turns_remaining <= 1`: the last confused
\* turn is replaced by the revert
ConfusedEnemy_perform_reverts_early(w, a) ==
    LET turns_remaining == Head(w.ai[a].conf) IN
    IF turns_remaining <= 1
    THEN {[add_message(w, <<"no longer confused", w.name[a], <<>>, 0>>, "white")
             EXCEPT !.ai[a].conf = Tail(@)]}
    ELSE {BumpAction([w EXCEPT !.ai[a].conf = <<turns_remaining - 1>> \o Tail(@)], a, d) :
          d \in Directions}

\* ConfusedEnemy.perform without `self.turns_remaining -= 1`: the confused
\* turns are not counted
ConfusedEnemy_perform_never_counts(w, a) ==
    LET turns_remaining == Head(w.ai[a].conf) IN
    IF turns_remaining <= 0
    THEN {[add_message(w, <<"no longer confused", w.name[a], <<>>, 0>>, "white")
             EXCEPT !.ai[a].conf = Tail(@)]}
    ELSE {BumpAction(w, a, d) : d \in Directions}

\* ConfusedEnemy.perform: the set of outcomes (random.choice of a direction)
ConfusedEnemy_perform(w, a) ==
    LET turns_remaining == Head(w.ai[a].conf) IN
    IF turns_remaining <= 0
    THEN {[add_message(w, <<"no longer confused", w.name[a], <<>>, 0>>, "white")
             EXCEPT !.ai[a].conf = Tail(@)]}
    ELSE {BumpAction([w EXCEPT !.ai[a].conf = <<turns_remaining - 1>> \o Tail(@)], a, d) :
          d \in Directions}

\* entity.ai.perform()
ai_perform(w, a) ==
    IF w.ai[a].conf # <<>> THEN ConfusedEnemy_perform(w, a) ELSE HostileEnemy_perform(w, a)

\* ----------------------------------------------------------- turn engine

NoneInvoked == [a \in Actors |-> 0]

\* handle_action without the except clause: the turn goes on after Impossible
handle_action_ignores_Impossible(w) ==
    /\ Commit(w)
    /\ pc' = "enemies"
    /\ queue' = actors(w) \ {Player}
    /\ batch_runs' = 1

\* handle_action without its call of handle_enemy_turns
handle_action_skips_batch(w) ==
    IF w.exc # NoExc
    THEN /\ Commit(add_message(w, w.exc, "impossible"))
         /\ pc' = "return False"
         /\ queue' = {}
         /\ batch_runs' = 0
    ELSE /\ Commit(w)
         /\ pc' = "enemies"
         /\ queue' = {}
         /\ batch_runs' = 0

\* EventHandler.handle_action after action.perform() returned or raised:
\* w is the state perform left
handle_action(w) ==
    IF w.exc # NoExc
    THEN /\ Commit(add_message(w, w.exc, "impossible"))
         /\ pc' = "return False"
         /\ queue' = {}
         /\ batch_runs' = 0
    ELSE /\ Commit(w)
         /\ pc' = "enemies"
         /\ queue' = actors(w) \ {Player}
         /\ batch_runs' = 1

\* the histories of a call of handle_events start empty
NewEvent ==
    /\ invoked' = NoneInvoked
    /\ swallowed' = {}
    /\ fov_runs' = 0

\* an event whose dispatch returned an action: handle_events up to the batch
Submit(w) ==
    /\ handle_action(w)
    /\ NewEvent
    /\ UNCHANGED <<handler, handler_item>>

\* an event whose dispatch returned a handler, or None
Return(w, next) ==
    /\ Commit(w)
    /\ handler' = next
    /\ handler_item' = None
    /\ NewEvent
    /\ batch_runs' = 0
    /\ UNCHANGED <<pc, queue>>

Awaiting(kind) == pc = "await" /\ handler = kind

\* MainGameEventHandler.ev_keydown: a key of MOVE_KEYS
KeyMove ==
    /\ Awaiting("MainGameEventHandler")
    /\ \E d \in Directions : Submit(BumpAction(World, Player, d))

\* MainGameEventHandler.ev_keydown: a key of WAIT_KEYS
KeyWait ==
    /\ Awaiting("MainGameEventHandler")
    /\ Submit(WaitAction(World, Player))

\* handle_enemy_turns without `if entity.ai`: a corpse takes its turn
handle_enemy_turns_corpses_act ==
    /\ pc = "enemies"
    /\ \E entity \in queue :
         /\ queue' = queue \ {entity}
         /\ \E w \in ai_perform(World, entity) :
              /\ Commit(w)
              /\ swallowed' = IF w.exc # NoExc THEN swallowed \cup {entity}
                              ELSE swallowed
         /\ invoked' = [invoked EXCEPT ![entity] = @ + 1]
    /\ UNCHANGED <<handler, handler_item, pc, batch_runs, fov_runs>>

\* handle_enemy_turns reporting an enemy's Impossible as handle_action does
handle_enemy_turns_logs_Impossible ==
    /\ pc = "enemies"
    /\ \E entity \in queue :
         /\ queue' = queue \ {entity}
         /\ IF ai[entity].alive
            THEN /\ \E w \in ai_perform(World, entity) :
                      /\ Commit(IF w.exc # NoExc
                                THEN add_message(w, w.exc, "impossible") ELSE w)
                      /\ swallowed' = IF w.exc # NoExc THEN swallowed \cup {entity}
                                      ELSE swallowed
                 /\ invoked' = [invoked EXCEPT ![entity] = @ + 1]
            ELSE /\ Commit(World)
                 /\ UNCHANGED <<invoked, swallowed>>
    /\ UNCHANGED <<handler, handler_item, pc, batch_runs, fov_runs>>

\* Engine.handle_enemy_turns: one iteration of its loop
handle_enemy_turns ==
    /\ pc = "enemies"
    /\ \E entity \in queue :
         /\ queue' = queue \ {entity}
         /\ IF ai[entity].alive
            THEN /\ \E w \in ai_perform(World, entity) :
                      /\ Commit(w)
                      /\ swallowed' = IF w.exc # NoExc THEN swallowed \cup {entity}
                                      ELSE swallowed
                 /\ invoked' = [invoked EXCEPT ![entity] = @ + 1]
            ELSE /\ Commit(World)
                 /\ UNCHANGED <<invoked, swallowed>>
    /\ UNCHANGED <<handler, handler_item, pc, batch_runs, fov_runs>>

\* EventHandler.handle_action: update_fov() once the batch is over
UpdateFov ==
    /\ pc = "enemies"
    /\ queue = {}
    /\ Commit(update_fov(World))
    /\ fov_runs' = fov_runs + 1
    /\ pc' = "return True"
    /\ UNCHANGED <<handler, handler_item, queue, invoked, batch_runs, swallowed>>

\* handle_events testing requires_level_up before is_alive
NextHandler_level_up_first ==
    IF requires_level_up(World) THEN "LevelUpEventHandler"
    ELSE IF ~ai[Player].alive THEN "GameOverEventHandler"
    ELSE "MainGameEventHandler"

\* EventHandler.handle_events after handle_action returned True
NextHandler ==
    IF ~ai[Player].alive THEN "GameOverEventHandler"
    ELSE IF requires_level_up(World) THEN "LevelUpEventHandler"
    ELSE "MainGameEventHandler"

ReturnHandler ==
    /\ pc = "return True"
    /\ Commit(World)
    /\ handler' = NextHandler
    /\ handler_item' = None
    /\ pc' = "await"
    /\ NewEvent
    /\ batch_runs' = 0
    /\ UNCHANGED queue

\* EventHandler.handle_events after handle_action returned False: return self
ReturnSelf ==
    /\ pc = "return False"
    /\ Commit(World)
    /\ pc' = "await"
    /\ UNCHANGED <<handler, handler_item, queue, invoked, batch_runs, swallowed,
                    fov_runs>>

\* MainGameEventHandler.ev_keydown: key i
KeyInventory ==
    /\ Awaiting("MainGameEventHandler")
    /\ Return(World, "InventoryActivateHndler")

\* InventoryEventHandler.ev_keydown with InventoryActivateHndler.on_item_selected:
\* the key of index
InventorySelect ==
    /\ Awaiting("InventoryActivateHndler")
    /\ \E index \in 0 .. Len(inventory) :
         IF index >= Len(inventory)
         THEN Return(add_message(World, Text("Invalid entry."), "invalid"), handler)
         ELSE LET item == inventory[index + 1] IN
              IF item \in {"health_potion", "lightning_scroll"}
              THEN \E w \in ItemAction(World, Player, item, pos[Player]) : Submit(w)
              ELSE IF item \in {"confusion_scroll", "firecube_scroll"}
              THEN /\ Commit(add_message(World, Text("Select a target location."), "needs_target"))
                   /\ handler' = IF item = "confusion_scroll"
                                 THEN "SingleRangedAttackHandler"
                                 ELSE "AreaRangedAttackHandler"
                   /\ handler_item' = item
                   /\ NewEvent
                   /\ batch_runs' = 0
                   /\ UNCHANGED <<pc, queue>>
              ELSE Submit(EquipAction(World, Player, item))

\* MainGameEventHandler.ev_keydown: key g
KeyPickup ==
    /\ Awaiting("MainGameEventHandler")
    /\ \E w \in PickupAction(World, Player) : Submit(w)

\* MainGameEventHandler.ev_keydown: key d
KeyDrop ==
    /\ Awaiting("MainGameEventHandler")
    /\ Return(World, "InventoryDropHandler")

\* InventoryEventHandler.ev_keydown with InventoryDropHandler.on_item_selected:
\* the key of index
DropSelect ==
    /\ Awaiting("InventoryDropHandler")
    /\ \E index \in 0 .. Len(inventory) :
         IF index >= Len(inventory)
         THEN Return(add_message(World, Text("Invalid entry."), "invalid"), handler)
         ELSE Submit(DropItem(World, Player, inventory[index + 1]))

\* MainGameEventHandler.ev_keydown: key = or u; the floors are counted up to
\* MaxFloor
KeyStairs ==
    /\ Awaiting("MainGameEventHandler")
    /\ current_floor < MaxFloor
    /\ \E w \in TakeStairsAction(World, Player) : Submit(w)

\* AskUserEventHandler.ev_keydown / ev_mousebuttondown: on_exit
AskUserExit ==
    /\ pc = "await"
    /\ handler \in {"InventoryActivateHndler", "InventoryDropHandler",
                    "SingleRangedAttackHandler", "AreaRangedAttackHandler"}
    /\ Return(World, "MainGameEventHandler")

\* SelectIndexHandler.on_index_selected: the callback's ItemAction at (x, y)
IndexSelected ==
    /\ pc = "await"
    /\ handler \in {"SingleRangedAttackHandler", "AreaRangedAttackHandler"}
    /\ \E xy \in Cells : \E w \in ItemAction(World, Player, handler_item, xy) : Submit(w)

\* LevelUpEventHandler.ev_keydown: key a, then AskUserEventHandler.on_exit
LevelUpConstitution ==
    /\ Awaiting("LevelUpEventHandler")
    /\ Return(increase_max_hp(World), "MainGameEventHandler")

\* main: an exception that leaves handle_events is caught by the event loop's
\* `except Exception`, which writes the traceback to the message log; the
\* assignment `handler = ...` never happens
Uncaught(w) ==
    Return(add_message([w EXCEPT !.exc = NoExc], Text("Traceback"), "error"), handler)

\* LevelUpEventHandler.ev_keydown: key b
LevelUpStrength ==
    /\ Awaiting("LevelUpEventHandler")
    /\ LET w == increase_power(World) IN
       IF w.exc # NoExc THEN Uncaught(w) ELSE Return(w, "MainGameEventHandler")

\* LevelUpEventHandler.ev_keydown: key c
LevelUpAgility ==
    /\ Awaiting("LevelUpEventHandler")
    /\ LET w == increase_defense(World) IN
       IF w.exc # NoExc THEN Uncaught(w) ELSE Return(w, "MainGameEventHandler")

\* LevelUpEventHandler.ev_keydown: a key outside a..c
LevelUpInvalid ==
    /\ Awaiting("LevelUpEventHandler")
    /\ Return(add_message(World, Text("Invalid entry."), "invalid"), handler)

\* GameOverEventHandler.ev_keydown: returns None for every key
GameOverKey ==
    /\ Awaiting("GameOverEventHandler")
    /\ Return(World, handler)

\* ----------------------------------------------------- dungeon generation

MapCells == (0 .. MapWidth - 1) \X (0 .. MapHeight - 1)

\* RectangularRoom.__init__
RectangularRoom(x, y, width, height) ==
    [x1 |-> x, y1 |-> y, x2 |-> x + width, y2 |-> y + height]

\* RectangularRoom.center
center(room) == <<(room.x1 + room.x2) \div 2, (room.y1 + room.y2) \div 2>>

\* RectangularRoom.inner: the cells of slice(x1 + 1, x2), slice(y1 + 1, y2)
inner(room) == ((room.x1 + 1) .. (room.x2 - 1)) \X ((room.y1 + 1) .. (room.y2 - 1))

\* RectangularRoom.intersects with the strict comparisons of an exclusive test
intersects_exclusive(room, other) ==
    /\ room.x1 < other.x2
    /\ room.x2 > other.x1
    /\ room.y1 < other.y2
    /\ room.y2 > other.y1

\* RectangularRoom.intersects testing the lower bounds only
intersects_one_sided(room, other) ==
    /\ room.x1 <= other.x2
    /\ room.y1 <= other.y2

\* RectangularRoom.intersects
intersects(room, other) ==
    /\ room.x1 <= other.x2
    /\ room.x2 >= other.x1
    /\ room.y1 <= other.y2
    /\ room.y2 >= other.y1

\* tcod.los.bresenham between two points that share a coordinate
bresenham(c1, c2) ==
    {c \in MapCells : /\ Min(c1[1], c2[1]) <= c[1] /\ c[1] <= Max(c1[1], c2[1])
                      /\ Min(c1[2], c2[2]) <= c[2] /\ c[2] <= Max(c1[2], c2[2])}

\* tunnle_between: the cells of the tunnel for either corner
tunnle_between(start, end) ==
    {bresenham(start, corner) \cup bresenham(corner, end) :
        corner \in {<<end[1], start[2]>>, <<start[1], end[2]>>}}

\* the loop of place_entities without the test for an entity on the cell
RECURSIVE spawn_all_unchecked(_, _, _, _)
spawn_all_unchecked(entities, kinds, room, player) ==
    IF kinds = <<>> THEN {entities}
    ELSE UNION {spawn_all_unchecked(entities \cup {[kind |-> Head(kinds), xy |-> c]},
                                    Tail(kinds), room, player) : c \in inner(room)}

\* the loop of place_entities testing the cell against the player alone
RECURSIVE spawn_all_beside_player(_, _, _, _)
spawn_all_beside_player(entities, kinds, room, player) ==
    IF kinds = <<>> THEN {entities}
    ELSE UNION {spawn_all_beside_player(IF c # player
                                        THEN entities \cup {[kind |-> Head(kinds), xy |-> c]}
                                        ELSE entities,
                                        Tail(kinds), room, player) : c \in inner(room)}

\* the loop of place_entities over monsters + items: one random cell of the
\* room's interior for each, Entity.spawn when no entity stands on it
RECURSIVE spawn_all(_, _, _, _)
spawn_all(entities, kinds, room, player) ==
    IF kinds = <<>> THEN {entities}
    ELSE UNION {spawn_all(IF c # player /\ \A e \in entities : e.xy # c
                          THEN entities \cup {[kind |-> Head(kinds), xy |-> c]}
                          ELSE entities,
                          Tail(kinds), room, player) : c \in inner(room)}

\* place_entities on floor 1, where the tables hold the orc and the health
\* potion only: the sets of entities the dungeon may hold afterwards
place_entities(room, entities, player) ==
    UNION {spawn_all(entities,
                     [i \in 1 .. number_of_monsters |-> "orc"] \o
                         [i \in 1 .. number_of_items |-> "health_potion"],
                     room, player) :
           number_of_monsters \in 0 .. MaxMonstersPerRoom,
           number_of_items \in 0 .. MaxItemsPerRoom}

\* no call of place_entities is stepped through
NoSpawning ==
    [floor_number |-> 0, at |-> "idle", todo |-> <<>>, room |-> RectangularRoom(0, 0, 0, 0)]

\* procgen.max_items_by_floor and max_monsters_by_floor: (floor, value)
max_items_by_floor == <<<<1, 1>>, <<4, 2>>>>
max_monsters_by_floor == <<<<1, 2>>, <<4, 3>>, <<6, 5>>>>

\* procgen.item_chances and enemy_chances in the order of their keys: the
\* floor and the entities listed for it (every weight is positive)
item_chances ==
    <<<<0, <<"health_potion">>>>,
      <<2, <<"confusion_scroll">>>>,
      <<4, <<"lightning_scroll", "sword">>>>,
      <<6, <<"firecube_scroll", "chain_mail", "sword">>>>>>
enemy_chances ==
    <<<<0, <<"orc">>>>, <<3, <<"troll">>>>, <<5, <<"troll">>>>, <<7, <<"troll">>>>>>

\* get_max_value_for_floor without `break`: the last value of the table
RECURSIVE get_max_value_no_break(_, _, _)
get_max_value_no_break(table, floor, current_value) ==
    IF table = <<>> THEN current_value
    ELSE get_max_value_no_break(Tail(table), floor, Head(table)[2])

\* the loop of get_max_value_for_floor from current_value on
RECURSIVE get_max_value(_, _, _)
get_max_value(table, floor, current_value) ==
    IF table = <<>> THEN current_value
    ELSE IF Head(table)[1] > floor THEN current_value
    ELSE get_max_value(Tail(table), floor, Head(table)[2])

\* procgen.get_max_value_for_floor
get_max_value_for_floor(max_value_by_floor, floor) ==
    get_max_value(max_value_by_floor, floor, 0)

\* get_entities_at_random: the keys of entity_weighted_chances after the loop
\* over weighted_chances_by_floor, which breaks at the first key > floor
RECURSIVE entity_weighted_chances(_, _)
entity_weighted_chances(chances, floor) ==
    IF chances = <<>> THEN {}
    ELSE IF Head(chances)[1] > floor THEN {}
    ELSE {Head(chances)[2][i] : i \in DOMAIN Head(chances)[2]}
             \cup entity_weighted_chances(Tail(chances), floor)

\* procgen.get_entities_at_random: the lists random.choices may return
get_entities_at_random(weighted_chances_by_floor, number_of_entities, floor) ==
    [1 .. number_of_entities -> entity_weighted_chances(weighted_chances_by_floor, floor)]

\* place_entities up to its loop: the draws of the numbers and of the lists
DrawEntities ==
    /\ spawning.at = "call"
    /\ \E number_of_monsters \in
             0 .. get_max_value_for_floor(max_monsters_by_floor, spawning.floor_number),
          number_of_items \in
             0 .. get_max_value_for_floor(max_items_by_floor, spawning.floor_number) :
         \E monsters \in get_entities_at_random(enemy_chances, number_of_monsters,
                                                spawning.floor_number),
            items \in get_entities_at_random(item_chances, number_of_items,
                                             spawning.floor_number) :
           spawning' = [spawning EXCEPT !.at = "loop", !.todo = monsters \o items]
    /\ UNCHANGED <<tiles, rooms, center_of_last_room, dungeon_downstairs,
                   dungeon_entities, player_xy, r, gen_pc, play_vars>>

\* place_entities: one iteration of `for entity in monsters + items`
SpawnEntity ==
    /\ spawning.at = "loop"
    /\ spawning.todo # <<>>
    /\ \E c \in inner(spawning.room) :
         dungeon_entities' =
             IF c # player_xy /\ \A e \in dungeon_entities : e.xy # c
             THEN dungeon_entities \cup {[kind |-> Head(spawning.todo), xy |-> c]}
             ELSE dungeon_entities
    /\ spawning' = [spawning EXCEPT !.todo = Tail(@)]
    /\ UNCHANGED <<tiles, rooms, center_of_last_room, dungeon_downstairs,
                   player_xy, r, gen_pc, play_vars>>

\* generate_dungeon: one iteration of `for r in range(max_rooms)`
GenerateRoom ==
    /\ gen_pc = "loop"
    /\ r < MaxRooms
    /\ r' = r + 1
    /\ \E room_width \in RoomMinSize .. RoomMaxSize,
          room_height \in RoomMinSize .. RoomMaxSize :
       \E x \in 0 .. MapWidth - room_width - 1,
          y \in 0 .. MapHeight - room_height - 1 :
         LET new_room == RectangularRoom(x, y, room_width, room_height) IN
         IF \E i \in DOMAIN rooms : intersects(new_room, rooms[i])
         THEN UNCHANGED <<tiles, rooms, center_of_last_room, dungeon_downstairs,
                          dungeon_entities, player_xy>>
         ELSE \E tunnel \in IF rooms = <<>> THEN {{}}
                            ELSE tunnle_between(center(rooms[Len(rooms)]), center(new_room)) :
                LET stand == IF rooms = <<>> THEN center(new_room) ELSE player_xy
                    last == IF rooms = <<>> THEN center_of_last_room ELSE center(new_room)
                IN /\ player_xy' = stand
                   /\ center_of_last_room' = last
                   /\ dungeon_entities' \in place_entities(new_room, dungeon_entities, stand)
                   /\ tiles' = [c \in MapCells |->
                                  IF c = last THEN "down_stairs"
                                  ELSE IF c \in inner(new_room) \cup tunnel THEN "floor"
                                  ELSE tiles[c]]
                   /\ dungeon_downstairs' = last
                   /\ rooms' = Append(rooms, new_room)
    /\ UNCHANGED <<gen_pc, spawning, play_vars>>

\* generate_dungeon: `return dungeon`
ReturnDungeon ==
    /\ gen_pc = "loop"
    /\ r = MaxRooms
    /\ gen_pc' = "returned"
    /\ UNCHANGED <<tiles, rooms, center_of_last_room, dungeon_downstairs,
                   dungeon_entities, player_xy, r, spawning, play_vars>>

\* generate_dungeon up to its loop: GameMap(engine, map_width, map_height,
\* entities=[player]) with the player as entity_factories left it
EnterGenerateDungeon ==
    /\ tiles = [c \in MapCells |-> "wall"]
    /\ rooms = <<>>
    /\ center_of_last_room = <<0, 0>>
    /\ dungeon_downstairs = <<0, 0>>
    /\ dungeon_entities = {}
    /\ player_xy = <<0, 0>>
    /\ r = 0
    /\ gen_pc = "loop"
    /\ spawning = NoSpawning

\* no run of generate_dungeon is under way
NoGeneration ==
    /\ tiles = [c \in MapCells |-> "wall"]
    /\ rooms = <<>>
    /\ center_of_last_room = <<0, 0>>
    /\ dungeon_downstairs = <<0, 0>>
    /\ dungeon_entities = {}
    /\ player_xy = <<0, 0>>
    /\ r = 0
    /\ gen_pc = "idle"
    /\ spawning = NoSpawning

\* --------------------------------------------------------- specification

\* what the player carries when the session starts
Loadouts == {<<"chain_mail", "health_potion">>, <<"lightning_scroll">>,
             <<"confusion_scroll">>, <<"firecube_scroll">>}

\* a session as new_game or load_game builds it, the player carrying one of
\* loadouts
LoadedWith(loadouts, brains) ==
    /\ pos \in {p \in [Actors -> Floor] : \A a, b \in Actors : a # b => p[a] # p[b]}
    /\ hp = TemplateHp
    /\ max_hp = TemplateHp
    /\ ai \in brains
    /\ blocks_movement = [a \in Actors |-> TRUE]
    /\ name = ActorName
    /\ current_xp = 0
    /\ current_level = 1
    /\ inventory \in loadouts
    /\ armor \in {None} \cup {i \in Armors : \E k \in DOMAIN inventory : inventory[k] = i}
    /\ weapon \in {None} \cup {i \in Weapons : \E k \in DOMAIN inventory : inventory[k] = i}
    /\ messages = LastEntries(<<[plain_text |->
                                   Text("Hello and welcome, adventurer, to yet another dungeon!"),
                               fg |-> "welcome_text", count |-> 1]>>)
    /\ visible = compute_fov[pos[Player]]
    /\ explored = visible
    /\ handler = "MainGameEventHandler"
    /\ handler_item = None
    /\ queue = {}
    /\ deaths = [a \in Actors |-> 0]
    /\ invoked = NoneInvoked
    /\ batch_runs = 0
    /\ swallowed = {}
    /\ fov_runs = 0
    /\ logged = <<>>
    /\ act = NoAct
    /\ map_actors = Actors
    /\ map_items = {}
    /\ item_xy = [i \in ItemPool |-> <<0, 0>>]
    /\ item_parent = [i \in ItemPool |->
                        IF \E k \in DOMAIN inventory : inventory[k] = i
                        THEN InInventory ELSE NoParent]
    /\ game_map = 1
    /\ current_floor = 1
    /\ downstairs_location = LastRoomCenter

\* a new session: every monster holds the HostileEnemy of its template
StartedWith(loadouts) == LoadedWith(loadouts, {[a \in Actors |-> HostileEnemy]})

Started == StartedWith(Loadouts)

\* the session in the main loop: the handler awaits an event
Session == Started /\ pc = "await"

Init == Session /\ NoGeneration

Next ==
    \/ KeyMove
    \/ KeyWait
    \/ KeyInventory
    \/ InventorySelect
    \/ AskUserExit
    \/ IndexSelected
    \/ handle_enemy_turns
    \/ UpdateFov
    \/ ReturnHandler
    \/ ReturnSelf
    \/ LevelUpConstitution
    \/ LevelUpStrength
    \/ LevelUpAgility
    \/ LevelUpInvalid
    \/ GameOverKey

Spec == Init /\ [][Next]_vars

\* one session whose control is inside generate_dungeon: no handler
\* awaits an event
OneSession ==
    /\ Started
    /\ pc = "generate_dungeon"
    /\ pos = [player |-> <<0, 0>>, e1 |-> <<2, 1>>, e2 |-> <<2, 2>>]
    /\ inventory = <<"lightning_scroll">>

\* a run of generate_dungeon
InitGen == OneSession /\ EnterGenerateDungeon

NextGen ==
    \/ GenerateRoom
    \/ ReturnDungeon

SpecGen == InitGen /\ [][NextGen]_vars

\* generate_dungeon in its first iteration, the room dug and the player
\* placed, at the call of place_entities for a floor number
InitPlace ==
    /\ OneSession
    /\ LET new_room == RectangularRoom(0, 0, RoomMaxSize, RoomMaxSize) IN
       /\ tiles = [c \in MapCells |-> IF c \in inner(new_room) THEN "floor" ELSE "wall"]
       /\ player_xy = center(new_room)
       /\ spawning \in {[floor_number |-> f, at |-> "call", todo |-> <<>>, room |-> new_room] :
                          f \in 1 .. MaxFloorNumber}
    /\ rooms = <<>>
    /\ center_of_last_room = <<0, 0>>
    /\ dungeon_downstairs = <<0, 0>>
    /\ dungeon_entities = {}
    /\ r = 0
    /\ gen_pc = "loop"

NextPlace ==
    \/ DrawEntities
    \/ SpawnEntity

SpecPlace == InitPlace /\ [][NextPlace]_vars

\* a session in play, or a run of generate_dungeon
InitFloors == Init \/ InitGen

NextFloors == Next \/ NextGen

SpecFloors == InitFloors /\ [][NextFloors]_vars

\* a saved session on a floor without monsters: the player, hurt or not,
\* carries nothing, and the items lie on the floor
InitItems ==
    /\ pos = [player |-> FirstRoomCenter, e1 |-> <<0, 0>>, e2 |-> <<0, 0>>]
    /\ hp \in {[TemplateHp EXCEPT ![Player] = h] : h \in {1, PlayerHp}}
    /\ max_hp = TemplateHp
    /\ ai = [a \in Actors |-> HostileEnemy]
    /\ blocks_movement = [a \in Actors |-> TRUE]
    /\ name = ActorName
    /\ current_xp = 0
    /\ current_level = 1
    /\ inventory = <<>>
    /\ armor = None
    /\ weapon = None
    /\ messages = LastEntries(<<[plain_text |->
                                   Text("Hello and welcome, adventurer, to yet another dungeon!"),
                               fg |-> "welcome_text", count |-> 1]>>)
    /\ visible = compute_fov[pos[Player]]
    /\ explored = visible
    /\ handler = "MainGameEventHandler"
    /\ handler_item = None
    /\ pc = "await"
    /\ queue = {}
    /\ deaths = [a \in Actors |-> 0]
    /\ invoked = NoneInvoked
    /\ batch_runs = 0
    /\ swallowed = {}
    /\ fov_runs = 0
    /\ logged = <<>>
    /\ act = NoAct
    /\ map_actors = {Player}
    /\ map_items = ItemPool
    /\ item_xy \in [ItemPool -> {<<0, 0>>, <<1, 0>>}]
    /\ item_parent = [i \in ItemPool |-> InMap(1)]
    /\ game_map = 1
    /\ current_floor = 1
    /\ downstairs_location = LastRoomCenter
    /\ NoGeneration

\* the floor holds no monster, so the batch of handle_action has no entity
\* to visit and goes on to update_fov
NextItems ==
    \/ KeyMove
    \/ KeyPickup
    \/ KeyDrop
    \/ DropSelect
    \/ KeyInventory
    \/ InventorySelect
    \/ KeyStairs
    \/ AskUserExit
    \/ UpdateFov
    \/ ReturnHandler
    \/ ReturnSelf

SpecItems == InitItems /\ [][NextItems]_vars

\* a session in which the player carries two scrolls and stands in the
\* corridor before the two monsters
InitScrolls ==
    /\ StartedWith({<<"confusion_scroll", "firecube_scroll">>})
    /\ pos = [player |-> <<1, 0>>, e1 |-> <<2, 1>>, e2 |-> <<2, 2>>]
    /\ pc = "await"
    /\ NoGeneration

SpecScrolls == InitScrolls /\ [][Next]_vars

\* a saved session: the player carries a confusion scroll, and the orc is
\* hostile or was confused by an earlier scroll
InitConfusion ==
    /\ LoadedWith({<<"confusion_scroll">>},
                  {[player |-> HostileEnemy, e1 |-> [HostileEnemy EXCEPT !.conf = c],
                    e2 |-> HostileEnemy] : c \in {<<>>, <<ConfusionTurns>>}})
    /\ pos = [player |-> <<1, 0>>, e1 |-> <<2, 1>>, e2 |-> <<2, 2>>]
    /\ pc = "await"
    /\ NoGeneration

\* a session in which the player carries the lightning scroll
InitLightning ==
    /\ StartedWith({<<"lightning_scroll">>})
    /\ pc = "await"
    /\ NoGeneration

\* the events of a user who waits, or opens the inventory and uses an item
\* that asks for no target
NextInventory ==
    \/ KeyWait
    \/ KeyInventory
    \/ InventorySelect
    \/ AskUserExit
    \/ handle_enemy_turns
    \/ UpdateFov
    \/ ReturnHandler
    \/ ReturnSelf
    \/ GameOverKey

SpecLightning == InitLightning /\ [][NextInventory]_vars

\* a session in which the player carries a potion, two weapons and two
\* armors, each slot empty or holding one of them
InitEquip ==
    /\ StartedWith({<<"health_potion", "dagger", "sword", "leather_armor", "chain_mail">>})
    /\ pos = [player |-> <<0, 0>>, e1 |-> <<2, 1>>, e2 |-> <<2, 2>>]
    /\ pc = "await"
    /\ NoGeneration

SpecEquip == InitEquip /\ [][NextInventory]_vars

\* the events of a user who waits, or opens the inventory and reads the
\* scroll; the engine answers as in every session
NextConfusion ==
    \/ KeyWait
    \/ KeyInventory
    \/ InventorySelect
    \/ AskUserExit
    \/ IndexSelected
    \/ handle_enemy_turns
    \/ UpdateFov
    \/ ReturnHandler
    \/ ReturnSelf
    \/ GameOverKey

\* handle_action, once entered, runs its loop over the actors, update_fov and
\* the return to the event loop without waiting for anything; only the next
\* event is up to the user.  The first conjunct is weak fairness of
\* handle_enemy_turns with its enabling condition written out: the loop has
\* an iteration to run exactly when an actor is left in the queue
EngineRuns ==
    /\ \/ []<>(~(pc = "enemies" /\ queue # {}))
       \/ []<><<handle_enemy_turns>>_vars
    /\ WF_vars(UpdateFov)
    /\ WF_vars(ReturnHandler)
    /\ WF_vars(ReturnSelf)

SpecConfusion == InitConfusion /\ [][NextConfusion]_vars /\ EngineRuns

\* the session of Spec with every key of MainGameEventHandler that yields an
\* action: the floor of the session holds no item, the floor below may
NextActions ==
    \/ Next
    \/ KeyPickup
    \/ KeyStairs

\* the monsters between the player and the stairs, or the player between
\* the monsters and the stairs
InitActions ==
    /\ Init
    /\ pos \in {[player |-> <<0, 0>>, e1 |-> <<2, 1>>, e2 |-> <<2, 2>>],
                [player |-> <<2, 1>>, e1 |-> <<1, 0>>, e2 |-> <<0, 0>>]}

SpecActions == InitActions /\ [][NextActions]_vars

\* a session in play with the pickup and stairs keys, or a run of
\* generate_dungeon
SpecDungeon == (InitActions \/ InitGen) /\ [][NextActions \/ NextGen]_vars

\* ------------------------------------------------------------- properties

\* the game state an action or an enemy turn works on
world == <<pos, hp, max_hp, ai, blocks_movement, name, current_xp,
           current_level, armor, weapon, inventory, messages, visible, explored,
           map_actors, map_items, item_xy, item_parent, game_map,
           current_floor, downstairs_location>>

C2_Turn(choice(_, _)) ==
    /\ (pc = "await" /\ act'.kind # None /\ act'.exc = NoExc) =>
         /\ pc' = "enemies"
         /\ batch_runs' = 1 /\ fov_runs' = 0 /\ invoked' = NoneInvoked
         /\ queue' = {a \in Enemies : ai'[a].alive}
         /\ handler' = handler
    /\ pc = "enemies" =>
         /\ batch_runs = 1 /\ fov_runs = 0
         /\ batch_runs' = 1
         /\ handler' = handler
         /\ \/ pc' = "enemies" /\ fov_runs' = 0
            \/ /\ pc' = "return True"
               /\ queue = {}
               /\ fov_runs' = 1
               /\ visible' = compute_fov[pos[Player]]
    /\ pc = "return True" =>
         /\ batch_runs = 1 /\ fov_runs = 1
         /\ pc' = "await"
         /\ UNCHANGED world
         /\ handler' = choice(~ai[Player].alive, requires_level_up(World))

C2_AsStated(dead, level_up) ==
    IF level_up THEN "LevelUpEventHandler" ELSE "MainGameEventHandler"

C2_WithGameOver(dead, level_up) ==
    IF dead THEN "GameOverEventHandler" ELSE C2_AsStated(dead, level_up)

C3_HpWithinBounds ==
    \A a \in Actors : 0 <= hp[a] /\ hp[a] <= max_hp[a]

\* after a level-up raised max_hp the player was hurt, and an enemy is at 0
C3_Witness ==
    /\ max_hp[Player] > PlayerHp
    /\ 0 < hp[Player] /\ hp[Player] < max_hp[Player]
    /\ \E e \in Enemies : hp[e] = 0

\* C4: a Movement raises Impossible and leaves every position as it was when
\* its destination is out of bounds, not walkable or holds a blocking entity;
\* otherwise it does not raise and the mover stands exactly on (x+dx, y+dy).
C4_Movement ==
    [][act'.kind = "move" =>
         LET a == act'.actor
             dest == Add(pos[a], act'.d)
             blocked == \/ ~in_bounds(dest)
                        \/ dest \notin Floor
                        \/ \E b \in Actors : blocks_movement[b] /\ pos[b] = dest
         IN IF blocked
            THEN act'.exc # NoExc /\ pos' = pos
            ELSE act'.exc = NoExc /\ pos' = [pos EXCEPT ![a] = dest]]_vars

\* a Movement onto a free floor cell that another living actor holds failed
C4_Witness ==
    /\ act.kind = "move"
    /\ act.exc # NoExc
    /\ Add(pos[act.actor], act.d) \in Floor
    /\ \E b \in Actors : blocks_movement[b] /\ pos[b] = Add(pos[act.actor], act.d)

C8_BlocksIffAlive ==
    \A a \in Actors : blocks_movement[a] <=> ai[a].alive

\* a living actor stands on the cell of a corpse
C8_Witness ==
    \E a, b \in Actors :
        /\ ~ai[a].alive /\ ~blocks_movement[a]
        /\ ai[b].alive /\ blocks_movement[b]
        /\ pos[a] = pos[b]

\* C9: in the enemy batch every non-player actor alive at its turn has its AI
\* invoked exactly once, no AI is invoked twice, the player's AI is never
\* invoked, and an actor that is dead at its turn does not act.
C9_EnemyBatch ==
    [][/\ \A a \in Actors : invoked'[a] <= 1
       /\ invoked'[Player] = 0 /\ Player \notin queue'
       /\ (pc = "enemies" /\ pc' = "enemies") =>
            \E e \in queue :
                /\ queue' = queue \ {e}
                /\ IF ai[e].alive
                   THEN /\ invoked[e] = 0
                        /\ invoked' = [invoked EXCEPT ![e] = 1]
                   ELSE /\ invoked' = invoked
                        /\ act'.kind = None
                        /\ UNCHANGED world
       /\ (pc = "enemies" /\ pc' = "return True") =>
            /\ queue = {}
            /\ \A e \in Enemies : ai[e].alive => invoked[e] = 1]_vars

\* an enemy has just killed another one whose turn in this batch is still due
C9_Witness ==
    /\ pc = "enemies"
    /\ act.kind = "melee" /\ act.actor \in Enemies /\ act.target \in Enemies
    /\ ~ai[act.target].alive
    /\ act.target \in queue
    /\ invoked[act.target] = 0

Box(room) == (room.x1 .. room.x2) \X (room.y1 .. room.y2)

\* C14: the rooms generate_dungeon has accepted pairwise do not overlap under
\* the inclusive test: no two of them share a cell, an edge or a corner
\* coordinate.
C14_RoomsDisjoint ==
    \A i, j \in DOMAIN rooms : i # j => Box(rooms[i]) \cap Box(rooms[j]) = {}

\* generate_dungeon returned a dungeon of two rooms or more
C14_Witness ==
    /\ gen_pc = "returned"
    /\ Len(rooms) >= 2

\* C15 as stated: a floor with at least one accepted room has its descent
\* point inside the interior of an accepted room, and the tile there is the
\* stairs; also when exactly one room was accepted.
C15_DescentInsideRoom_AsStated ==
    (gen_pc = "returned" /\ Len(rooms) >= 1) =>
        /\ \E i \in DOMAIN rooms : dungeon_downstairs \in inner(rooms[i])
        /\ tiles[dungeon_downstairs] = "down_stairs"

\* C16: from the first accepted room on, the player stands on the center of
\* the first accepted room, that cell is walkable, and no monster or item
\* spawned by the generation is on the player's cell.
C16_PlayerStart ==
    r >= 1 =>
        /\ rooms # <<>>
        /\ player_xy = center(rooms[1])
        /\ tiles[player_xy] # "wall"
        /\ \A e \in dungeon_entities : e.xy # player_xy

\* generate_dungeon returned and left a monster in the player's room
C16_Witness ==
    /\ gen_pc = "returned"
    /\ Len(rooms) >= 2
    /\ \E e \in dungeon_entities : e.kind = "orc" /\ e.xy \in inner(rooms[1])

\* the items of the player's inventory
Carried == {inventory[k] : k \in DOMAIN inventory}

\* the floor items on the player's cell
Here == {item \in map_items : item_xy[item] = pos[Player]}

\* C11: after any sequence of Pickup, Drop and item use the number of items
\* in the inventory never exceeds the inventory's capacity.
C11_Capacity == Len(inventory) <= Capacity

\* a Pickup was refused because the inventory is full
C11_Witness ==
    /\ act.kind = "pickup"
    /\ act.exc = Text("Your inventory is full.")
    /\ Len(inventory) = Capacity

\* C12: Pickup raises Impossible (full) when a floor item is on the actor's
\* cell and the inventory is at capacity, and Impossible (nothing) when no
\* floor item is on the cell; both leave the inventory and the floor's
\* entities as they were; otherwise exactly one floor item of the cell moves
\* from the grid to the end of the inventory.
C12_Pickup ==
    [][(pc = "await" /\ act'.kind = "pickup") =>
          IF Here = {}
          THEN /\ act'.exc = Text("There is nothing to pick up")
               /\ UNCHANGED <<inventory, map_items, item_xy, item_parent>>
          ELSE IF Len(inventory) >= Capacity
          THEN /\ act'.exc = Text("Your inventory is full.")
               /\ UNCHANGED <<inventory, map_items, item_xy, item_parent>>
          ELSE /\ act'.exc = NoExc
               /\ \E item \in Here :
                    /\ map_items' = map_items \ {item}
                    /\ inventory' = Append(inventory, item)]_vars

\* one of two items on the player's cell was picked up, the other still lies
\* there
C12_Witness ==
    /\ act.kind = "pickup"
    /\ act.exc = NoExc
    /\ Here # {}
    /\ inventory # <<>>

\* C18 as stated: Drop always succeeds, removes the item from the inventory
\* and puts it on the grid at the actor's position; an equipped item is
\* unequipped first, so that no slot refers to it and the defense no longer
\* includes its bonus.
C18_Drop_AsStated ==
    [][(pc = "await" /\ act'.kind = "drop") =>
          LET item == act'.target IN
          /\ act'.exc = NoExc
          /\ item \notin {inventory'[k] : k \in DOMAIN inventory'}
          /\ item \in map_items'
          /\ item_xy'[item] = pos[Player]
          /\ armor' # item
          /\ defense_bonus([armor |-> armor', weapon |-> weapon'], Player) = 0]_vars

OneOwner ==
    /\ map_items \cap Carried = {}
    /\ \A j, k \in DOMAIN inventory : j # k => inventory[j] # inventory[k]
    /\ \A item \in map_items : item_parent[item] = InMap(game_map)
    /\ \A item \in Carried : item_parent[item] = InInventory

\* C20: an item has at most one owner: it is never both among the grid's
\* entities and in the inventory, the inventory holds it once, and its
\* parent names the container that holds it; Pickup and Drop hand over the
\* same object, so the objects held by the grid and the inventory together
\* stay the same.
C20_OneOwner ==
    /\ OneOwner
    /\ [][/\ OneOwner'
          /\ (pc = "await" /\ act'.kind \in {"pickup", "drop"}) =>
                map_items' \cup Carried' = map_items \cup Carried]_vars

\* an item picked up on one cell has been dropped on another
C20_Witness ==
    /\ act.kind = "drop"
    /\ act.exc = NoExc
    /\ act.target \in map_items
    /\ item_xy[act.target] = LastRoomCenter

\* a key a, b or c of the level-up menu was handled in this step
LevelUpChoice ==
    /\ Awaiting("LevelUpEventHandler")
    /\ logged' # <<Text("Invalid entry.")>>

\* C21: gaining experience never changes current_level, and each of the
\* three level-up choices applies its bonus (for the max hp choice, to max_hp),
\* raises current_level by exactly 1, subtracts the old level's threshold
\* level_up_base + current_level * level_up_factor from current_xp and returns
\* control to the main handler.
C21_LevelUp_AsStated ==
    [][/\ ~Awaiting("LevelUpEventHandler") => current_level' = current_level
       /\ LevelUpChoice =>
            /\ current_level' = current_level + 1
            /\ current_xp' = current_xp - (LevelUpBase + current_level * LevelUpFactor)
            /\ handler' = "MainGameEventHandler"
            /\ logged' = <<Text("Your health improves!")>> =>
                 max_hp'[Player] = max_hp[Player] + MaxHpAmount]_vars

\* the xp_given of the actors that died in this step
Bounty ==
    (IF deaths'["e1"] > deaths["e1"] THEN xp_given["e1"] ELSE 0)
    + (IF deaths'["e2"] > deaths["e2"] THEN xp_given["e2"] ELSE 0)
    + (IF deaths'[Player] > deaths[Player] THEN xp_given[Player] ELSE 0)

\* C22: when an actor dies its xp_given goes to the actor whose action killed
\* it and to no other: outside the level-up menu the player's current_xp
\* rises by the xp_given of the actors that died in a step when the step was
\* the player's action, and stays as it is when the step was an enemy's.
C22_XpToKiller_AsStated ==
    [][~Awaiting("LevelUpEventHandler") =>
         current_xp' = current_xp + (IF act'.actor = Player THEN Bounty ELSE 0)]_vars

\* the same with the killer left out: the player's current_xp rises by the
\* xp_given of every actor that died in the step
C22_XpToPlayer ==
    [][~Awaiting("LevelUpEventHandler") => current_xp' = current_xp + Bounty]_vars

\* C23: within one floor every recomputation of the visibility leaves
\* visible inside explored (explored gains exactly the visible cells) and
\* explored never loses a cell; a newly generated floor starts with empty
\* visible and explored sets.
C23_Explored ==
    /\ visible \subseteq explored
    /\ [][/\ visible' \subseteq explored'
          /\ game_map' = game_map => explored \subseteq explored'
          /\ fov_runs' = fov_runs + 1 =>
               /\ visible' = compute_fov[pos[Player]]
               /\ explored' = explored \cup visible'
          /\ game_map' # game_map => visible' = {} /\ explored' = {}]_vars

\* on the second floor the visibility was recomputed and explored holds cells
\* that are no longer visible
C23_Witness ==
    /\ current_floor = 2
    /\ fov_runs = 1
    /\ visible # explored
    /\ visible \subseteq explored

\* the list s without its k-th element
Without(s, k) == [j \in 1 .. Len(s) - 1 |-> IF j < k THEN s[j] ELSE s[j + 1]]

C26_OneCellPerTurn_AsStated ==
    [][\A e \in Enemies :
         (pc = "enemies" /\ ai[e].alive /\ ai[e].conf = <<>>) =>
             distance(pos'[e], pos[e]) <= 1]_vars

\* the same for the turns in which the actor is in the visible set, where the
\* path is computed afresh from the actor's position
C26_OneCellInSight ==
    [][\A e \in Enemies :
         (pc = "enemies" /\ ai[e].alive /\ ai[e].conf = <<>> /\ pos[e] \in visible) =>
             distance(pos'[e], pos[e]) <= 1]_vars

\* the cells of the dungeon under construction that can be walked on
Walkable == {c \in MapCells : tiles[c] # "wall"}

\* the cells reached from the cells of S by steps of one cell in the eight
\* directions over walkable cells
RECURSIVE Reach(_)
Reach(S) ==
    LET T == S \cup {c \in Walkable : \E s \in S : distance(s, c) <= 1}
    IN IF T = S THEN S ELSE Reach(T)

\* C27: on every generated floor with at least one accepted room the descent
\* point is reachable from the player's start through walkable cells, and so
\* is the interior of every accepted room.
C27_Reachable_AsStated ==
    (gen_pc = "returned" /\ rooms # <<>>) =>
        /\ dungeon_downstairs \in Reach({player_xy})
        /\ \A i \in DOMAIN rooms : inner(rooms[i]) \subseteq Reach({player_xy})

\* the interiors alone: every accepted room is reachable from the player's
\* start, and with two accepted rooms or more so is the descent point
C27_RoomsReachable ==
    (gen_pc = "returned" /\ rooms # <<>>) =>
        /\ \A i \in DOMAIN rooms : inner(rooms[i]) \subseteq Reach({player_xy})
        /\ Len(rooms) >= 2 => dungeon_downstairs \in Reach({player_xy})

\* the cells of the dungeon under construction that carry the stairs tile
Stairs == {c \in MapCells : tiles[c] = "down_stairs"}

\* C28: after generation the center of the final accepted room is the descent
\* point and no other cell carries the stairs tile: the marker written for an
\* earlier room, or before any room had a center, does not remain.
C28_OneStairs_AsStated ==
    (gen_pc = "returned" /\ rooms # <<>>) =>
        /\ dungeon_downstairs = center(rooms[Len(rooms)])
        /\ Stairs = {center(rooms[Len(rooms)])}

\* what remains: the marker of the second and later rooms is overwritten by
\* the next tunnel, the one written at (0, 0) for the first room stays
C28_StairsLeft ==
    (gen_pc = "returned" /\ rooms # <<>>) =>
        /\ dungeon_downstairs = IF Len(rooms) = 1 THEN <<0, 0>>
                                ELSE center(rooms[Len(rooms)])
        /\ Stairs = {<<0, 0>>, dungeon_downstairs}

\* the game state without the message log
board == <<pos, hp, max_hp, ai, blocks_movement, name, current_xp,
           current_level, armor, weapon, inventory, visible, explored,
           map_actors, map_items, item_xy, item_parent, game_map,
           current_floor, downstairs_location>>

HostileTurn(e) == pc = "enemies" /\ act'.actor = e /\ ai[e].conf = <<>>

\* C30: a Hostile actor performs Melee only against the player, and only on
\* a turn in which it is in the visible set and at Chebyshev distance 1 or
\* less from the player; a Hostile actor outside the visible set that holds
\* no cached path performs Wait, which leaves its position and every other
\* actor unchanged.
C30_HostileMelee_AsStated ==
    [][\A e \in Enemies : HostileTurn(e) =>
         /\ (act'.kind = "melee" /\ act'.exc = NoExc) =>
              /\ act'.target = Player
              /\ pos[e] \in visible
              /\ distance(pos[e], pos[Player]) <= 1
         /\ (pos[e] \notin visible /\ ai[e].path = <<>>) =>
              /\ act'.kind = "wait"
              /\ UNCHANGED <<pos, hp, ai, blocks_movement, name>>]_vars

\* the same with the cell in place of the player: the Melee is aimed at the
\* player's cell and strikes the living actor found there
C30_HostileMeleeAtCell ==
    [][\A e \in Enemies : HostileTurn(e) =>
         /\ act'.kind = "melee" =>
              /\ act'.d = Sub(pos[Player], pos[e])
              /\ pos[e] \in visible
              /\ distance(pos[e], pos[Player]) <= 1
         /\ (pos[e] \notin visible /\ ai[e].path = <<>>) =>
              /\ act'.kind = "wait"
              /\ UNCHANGED <<pos, hp, ai, blocks_movement, name>>]_vars

\* the AI of actor e is invoked in this step
Turn(e) == invoked'[e] = invoked[e] + 1

Engulfed(xy) ==
    {t \in map_actors : ai[t].alive /\ distance(pos[t], xy) < FirecubeRadius}

Strikable ==
    {t \in map_actors \ {Player} :
        /\ ai[t].alive
        /\ pos[t] \in visible
        /\ distance(pos[Player], pos[t]) <= LightningRange}

C34_Refused ==
    /\ act.kind = "lightning_scroll"
    /\ act.exc = Text("No enemy is close enough to strike.")
    /\ \E e \in Enemies :
         /\ ai[e].alive /\ pos[e] \in visible
         /\ distance(pos[Player], pos[e]) = LightningRange + 1

\* the living actors of the active grid on cell xy
LivingAt(xy) == {t \in map_actors : ai[t].alive /\ pos[t] = xy}

Toggled(item, occupant) ==
    LET slot == IF item \in Weapons THEN "weapon" ELSE "armor"
    IN toggle_equip([World EXCEPT ![slot] = occupant], item)

MonsterKinds == {"orc", "troll"}

\* the value paired with the highest threshold <= floor, 0 when there is none
Cap(table, floor) ==
    LET below == {i \in DOMAIN table : table[i][1] <= floor}
    IN IF below = {} THEN 0
       ELSE table[CHOOSE i \in below : \A j \in below : table[j][1] <= table[i][1]][2]

\* the floors for which a table lists kind
Thresholds(chances, kind) ==
    {chances[i][1] : i \in {i \in DOMAIN chances :
                               \E k \in DOMAIN chances[i][2] : chances[i][2][k] = kind}}

\* the kinds place_entities has spawned or has still to visit
Drawn ==
    {e.kind : e \in dungeon_entities} \cup {spawning.todo[i] : i \in DOMAIN spawning.todo}

\* how many of the entities spawned or still to visit are of kinds
Count(kinds) ==
    Cardinality({e \in dungeon_entities : e.kind \in kinds})
        + Cardinality({i \in DOMAIN spawning.todo : spawning.todo[i] \in kinds})

\* C37: for every floor number the monsters and the items placed in one room
\* each number at most cap(floor), the value of the highest threshold <=
\* floor and 0 when there is none, and every spawned entity is of a type that
\* a table lists with a threshold <= floor: no troll below floor 3, no
\* confusion scroll below floor 2.
C37_FloorTables ==
    /\ get_max_value_for_floor(max_monsters_by_floor, 0) = 0
    /\ get_max_value_for_floor(max_items_by_floor, 0) = 0
    /\ spawning.at = "loop" =>
         LET floor == spawning.floor_number IN
         /\ get_max_value_for_floor(max_monsters_by_floor, floor)
               = Cap(max_monsters_by_floor, floor)
         /\ get_max_value_for_floor(max_items_by_floor, floor)
               = Cap(max_items_by_floor, floor)
         /\ Count(MonsterKinds) <= Cap(max_monsters_by_floor, floor)
         /\ Count(Drawn \ MonsterKinds) <= Cap(max_items_by_floor, floor)
         /\ \A kind \in Drawn :
               \E t \in Thresholds(enemy_chances, kind) \cup Thresholds(item_chances, kind) :
                  t <= floor
         /\ "troll" \in Drawn => floor >= 3
         /\ "confusion_scroll" \in Drawn => floor >= 2

\* on floor 3 the room holds two monsters, a troll among them, and a
\* confusion scroll
C37_Witness ==
    /\ spawning.at = "loop" /\ spawning.todo = <<>>
    /\ spawning.floor_number = 3
    /\ Cardinality({e \in dungeon_entities : e.kind \in MonsterKinds}) = 2
    /\ \E e, f \in dungeon_entities : e.kind = "troll" /\ f.kind = "confusion_scroll"

\* C38: in every reachable state each living actor stands on an in-bounds,
\* walkable cell of the active grid; in a grid under construction, once the
\* first room is dug, the player and every spawned monster stand on a
\* walkable tile inside the map: player placement, spawns, Movement and
\* descents never leave a living actor on a wall or outside the grid.
C38_OnWalkable ==
    /\ \A a \in map_actors :
          ai[a].alive => in_bounds(pos[a]) /\ walkable(pos[a])
    /\ (gen_pc # "idle" /\ rooms # <<>>) =>
          /\ player_xy \in Walkable
          /\ \A e \in dungeon_entities : e.kind = "orc" => e.xy \in Walkable

\* on the second floor an enemy turn is under way: the player has descended
\* and moved off the arrival cell
C38_Witness ==
    /\ current_floor = 2
    /\ ai[Player].alive
    /\ pos[Player] # FirstRoomCenter
    /\ act.kind = "move" /\ act.actor = Player /\ act.exc = NoExc

\* C39: the player's current_xp is never negative and current_level never
\* decreases; the LevelUp handler is entered only when current_xp exceeds the
\* threshold level_up_base + current_level * level_up_factor, and a choice
\* of the level-up menu deducts exactly that threshold.
C39_XpAndLevel_AsStated ==
    /\ [](current_xp >= 0)
    /\ [][/\ current_level' >= current_level
          /\ (handler' = "LevelUpEventHandler" /\ handler # "LevelUpEventHandler") =>
                current_xp' > LevelUpBase + current_level' * LevelUpFactor
          /\ LevelUpChoice =>
                current_xp' = current_xp - (LevelUpBase + current_level * LevelUpFactor)]_vars

\* the same with the deduction stated for the choices that complete: the
\* level rises by 1 exactly when the threshold is deducted, in the level-up
\* menu, and the handler holds the menu only while current_xp exceeds the
\* threshold
C39_XpAndLevel ==
    /\ [](/\ current_xp >= 0
          /\ handler = "LevelUpEventHandler" =>
                current_xp > LevelUpBase + current_level * LevelUpFactor)
    /\ [][/\ current_level' >= current_level
          /\ current_level' # current_level =>
                /\ Awaiting("LevelUpEventHandler")
                /\ current_level' = current_level + 1
                /\ current_xp' = current_xp - (LevelUpBase + current_level * LevelUpFactor)
          /\ current_xp' < current_xp => current_level' = current_level + 1]_vars

\* the rooms of the sizes generate_dungeon draws, with a corner on the map
Drawable ==
    {RectangularRoom(x, y, width, height) :
        x \in 0 .. MapWidth - 1, y \in 0 .. MapHeight - 1,
        width \in RoomMinSize .. RoomMaxSize, height \in RoomMinSize .. RoomMaxSize}

\* the rooms of the example
ExampleRooms ==
    {RectangularRoom(10, 10, 6, 6), RectangularRoom(12, 12, 6, 6),
     RectangularRoom(30, 30, 6, 6)}

\* the ranges [x1, x2] of the two rooms share a point, and so do the ranges
\* [y1, y2]
Overlap(a, b) ==
    /\ (a.x1 .. a.x2) \cap (b.x1 .. b.x2) # {}
    /\ (a.y1 .. a.y2) \cap (b.y1 .. b.y2) # {}

\* C40: RectangularRoom.intersects is symmetric and true exactly when the x
\* ranges [x1, x2] and the y ranges [y1, y2] both overlap, bounds included, so
\* that touching rooms intersect; the room (10, 10, 6, 6) intersects
\* (12, 12, 6, 6) and does not intersect (30, 30, 6, 6); generate_dungeon
\* keeps a drawn room exactly when it overlaps none of the rooms kept so far.
C40_Intersects ==
    /\ \A a, b \in Drawable \cup ExampleRooms :
          /\ intersects(a, b) = intersects(b, a)
          /\ intersects(a, b) <=> Overlap(a, b)
    /\ intersects(RectangularRoom(10, 10, 6, 6), RectangularRoom(12, 12, 6, 6))
    /\ ~intersects(RectangularRoom(10, 10, 6, 6), RectangularRoom(30, 30, 6, 6))
    /\ [][r' = r + 1 =>
            IF rooms' = rooms
            THEN \E b \in Drawable : \E i \in DOMAIN rooms : Overlap(b, rooms[i])
            ELSE \E b \in Drawable :
                    /\ rooms' = Append(rooms, b)
                    /\ \A i \in DOMAIN rooms : ~Overlap(b, rooms[i])]_vars

\* generate_dungeon has kept two rooms and turned down a third draw, which
\* intersected one of them
C40_Witness ==
    /\ gen_pc = "returned"
    /\ Len(rooms) = 2
    /\ r = 3
    /\ ~intersects(rooms[1], rooms[2])


====
